---- MODULE Spec2Model ----
(***************************************************************************)
(* Model of the order validation and execution pipeline of trading_bot:    *)
(* InputValidator (validation.py), BinanceFuturesClient (api_client.py)    *)
(* and OrderExecutor (orders.py).                                          *)
(*                                                                         *)
(* Python values are records [t, v]: t is the type ("str", "none", "int")  *)
(* and v the characters of the value.  A character is a one-letter string; *)
(* the newline is written "LF" and the space "SP".                         *)
(***************************************************************************)
EXTENDS Integers, Sequences, FiniteSets, TLC

(* ---------------------------------------------------------------- bounds *)

\* Longest base-asset prefix of the generated symbol strings.
MaxPrefix == 2
\* Longest digit run of the generated numeric strings.
MaxDigits == 1
\* Most times the prompts of one interactive run ask again.
MaxReasks == 1

(* -------------------------------------------------------- Python values *)

Str(s) == [t |-> "str", v |-> s]
PyNone == [t |-> "none", v |-> <<>>]
PyInt(ds) == [t |-> "int", v |-> ds]

Lower == <<"a","b","c","d","e","f","g","h","i","j","k","l","m",
           "n","o","p","q","r","s","t","u","v","w","x","y","z">>
UpperAZ == <<"A","B","C","D","E","F","G","H","I","J","K","L","M",
             "N","O","P","Q","R","S","T","U","V","W","X","Y","Z">>
Digits == <<"0","1","2","3","4","5","6","7","8","9">>
Whitespace == {"SP", "LF"}

IsUpperAZ(c) == \E i \in 1..26 : UpperAZ[i] = c
IsDigit(c) == \E i \in 1..10 : Digits[i] = c
DigitVal(c) == (CHOOSE i \in 1..10 : Digits[i] = c) - 1

\* str.upper() and str.lower(), character by character; "e_acute" and
\* "E_ACUTE" are the letter e with an acute accent, small and capital
UpperChar(c) == IF \E i \in 1..26 : Lower[i] = c
                THEN UpperAZ[CHOOSE i \in 1..26 : Lower[i] = c]
                ELSE IF c = "e_acute" THEN "E_ACUTE" ELSE c
LowerChar(c) == IF \E i \in 1..26 : UpperAZ[i] = c
                THEN Lower[CHOOSE i \in 1..26 : UpperAZ[i] = c]
                ELSE IF c = "E_ACUTE" THEN "e_acute" ELSE c
\* str.isalpha() of one character
IsAlphaChar(c) ==
    \/ \E i \in 1..26 : Lower[i] = c \/ UpperAZ[i] = c
    \/ c \in {"e_acute", "E_ACUTE"}
Upper(s) == [i \in 1..Len(s) |-> UpperChar(s[i])]
LowerStr(s) == [i \in 1..Len(s) |-> LowerChar(s[i])]

\* bool(x): None, "" and 0 are falsy
Truthy(x) ==
    CASE x.t = "none" -> FALSE
      [] x.t = "str"  -> Len(x.v) > 0
      [] x.t = "int"  -> \E i \in 1..Len(x.v) : x.v[i] # "0"

\* str.strip()
RECURSIVE LStrip(_)
LStrip(s) == IF Len(s) > 0 /\ s[1] \in Whitespace THEN LStrip(Tail(s)) ELSE s
RECURSIVE RStrip(_)
RStrip(s) == IF Len(s) > 0 /\ s[Len(s)] \in Whitespace
             THEN RStrip(SubSeq(s, 1, Len(s) - 1)) ELSE s
Strip(s) == RStrip(LStrip(s))

(* ---------------------------------------------------------------- float *)

\* A float: k is "fin", "inf" or "nan"; a finite value is (-1)^neg * num / den.
Float(k, neg, num, den) == [k |-> k, neg |-> neg, num |-> num, den |-> den]
NoFloat == Float("none", FALSE, 0, 1)

RECURSIVE DigitsValue(_)
DigitsValue(ds) == IF Len(ds) = 0 THEN 0
                   ELSE 10 * DigitsValue(SubSeq(ds, 1, Len(ds) - 1)) + DigitVal(ds[Len(ds)])
RECURSIVE Pow10(_)
Pow10(n) == IF n = 0 THEN 1 ELSE 10 * Pow10(n - 1)
AllDigits(ds) == \A i \in 1..Len(ds) : IsDigit(ds[i])

\* The unsigned body of a float literal: inf, infinity, nan (any case), or
\* digits with at most one decimal point and at least one digit.  Exponents
\* and digit-group underscores are left out; no input drawn below uses them.
ParseBody(b, neg) ==
    LET lb == LowerStr(b)
        dots == {i \in 1..Len(b) : b[i] = "."}
    IN  IF lb = <<"i","n","f">> \/ lb = <<"i","n","f","i","n","i","t","y">>
          THEN [ok |-> TRUE, val |-> Float("inf", neg, 0, 1)]
        ELSE IF lb = <<"n","a","n">>
          THEN [ok |-> TRUE, val |-> Float("nan", neg, 0, 1)]
        ELSE IF dots = {} /\ Len(b) > 0 /\ AllDigits(b)
          THEN [ok |-> TRUE, val |-> Float("fin", neg, DigitsValue(b), 1)]
        ELSE IF Cardinality(dots) = 1
          THEN LET d == CHOOSE i \in dots : TRUE
                   ip == SubSeq(b, 1, d - 1)
                   fp == SubSeq(b, d + 1, Len(b))
               IN  IF Len(ip) + Len(fp) > 0 /\ AllDigits(ip) /\ AllDigits(fp)
                     THEN [ok |-> TRUE,
                           val |-> Float("fin", neg,
                                         DigitsValue(ip) * Pow10(Len(fp)) + DigitsValue(fp),
                                         Pow10(Len(fp)))]
                     ELSE [ok |-> FALSE, val |-> NoFloat]
        ELSE [ok |-> FALSE, val |-> NoFloat]

\* float(x) of a str or an int: ok = FALSE stands for ValueError
ParseFloat(x) ==
    LET s == Strip(x.v)
    IN  IF Len(s) > 0 /\ s[1] \in {"-", "+"}
          THEN ParseBody(Tail(s), s[1] = "-")
          ELSE ParseBody(s, FALSE)

\* f <= 0 on floats: every comparison with nan is False
LeqZero(f) ==
    CASE f.k = "nan" -> FALSE
      [] f.k = "inf" -> f.neg
      [] f.k = "fin" -> f.neg \/ f.num = 0

IsFinitePositive(f) == f.k = "fin" /\ ~f.neg /\ f.num > 0

(* --------------------------------------------------------------- config *)

ALLOWED_ORDER_SIDES == {<<"B","U","Y">>, <<"S","E","L","L">>}
ALLOWED_ORDER_TYPES == {<<"M","A","R","K","E","T">>, <<"L","I","M","I","T">>}
LIMIT == <<"L","I","M","I","T">>
MARKET == <<"M","A","R","K","E","T">>

(* ----------------------------------------------------------- validation *)

NoError == [exc |-> "none", field |-> "", reason |-> ""]
ValidationError(field, reason) ==
    [exc |-> "ValidationError", field |-> field, reason |-> reason]

USDT == <<"U","S","D","T">>

\* SYMBOL_PATTERN.match(s) for ^[A-Z]+USDT$ : match() anchors at the start,
\* and $ matches at the end of the string or just before a newline that ends it.
SymbolPatternMatch(s) ==
    \E n \in 1..Len(s) :
        /\ \A i \in 1..n : IsUpperAZ(s[i])
        /\ Len(s) >= n + 4
        /\ SubSeq(s, n + 1, n + 4) = USDT
        /\ \/ Len(s) = n + 4
           \/ Len(s) = n + 5 /\ s[n + 5] = "LF"

validate_symbol(symbol) ==
    IF ~Truthy(symbol) THEN ValidationError("symbol", "empty")
    ELSE IF symbol.t # "str" THEN ValidationError("symbol", "not_string")
    ELSE IF ~SymbolPatternMatch(symbol.v) THEN ValidationError("symbol", "format")
    ELSE NoError

validate_side(side) ==
    IF ~Truthy(side) THEN ValidationError("side", "empty")
    ELSE IF side.t # "str" THEN ValidationError("side", "not_string")
    ELSE IF Upper(side.v) \notin ALLOWED_ORDER_SIDES THEN ValidationError("side", "invalid")
    ELSE NoError

validate_order_type(order_type) ==
    IF ~Truthy(order_type) THEN ValidationError("order_type", "empty")
    ELSE IF order_type.t # "str" THEN ValidationError("order_type", "not_string")
    ELSE IF Upper(order_type.v) \notin ALLOWED_ORDER_TYPES
      THEN ValidationError("order_type", "invalid")
    ELSE NoError

validate_quantity(quantity) ==
    IF ~Truthy(quantity) THEN ValidationError("quantity", "empty")
    ELSE IF ~ParseFloat(quantity).ok THEN ValidationError("quantity", "not_numeric")
    ELSE IF LeqZero(ParseFloat(quantity).val) THEN ValidationError("quantity", "not_positive")
    ELSE NoError

\* order_type is a str here: validate_all checks it first
validate_price(price, order_type) ==
    LET order_type_upper == Upper(order_type.v)
    IN  IF order_type_upper = LIMIT
          THEN IF ~Truthy(price) THEN ValidationError("price", "required")
               ELSE IF ~ParseFloat(price).ok THEN ValidationError("price", "not_numeric")
               ELSE IF LeqZero(ParseFloat(price).val)
                 THEN ValidationError("price", "not_positive")
               ELSE NoError
          ELSE NoError

\* validate_all with the side checked before the symbol
validate_all_side_first(symbol, side, order_type, quantity, price) ==
    IF validate_side(side).exc # "none"
      THEN [err |-> validate_side(side), checks |-> <<"side">>]
    ELSE IF validate_symbol(symbol).exc # "none"
      THEN [err |-> validate_symbol(symbol), checks |-> <<"side", "symbol">>]
    ELSE IF validate_order_type(order_type).exc # "none"
      THEN [err |-> validate_order_type(order_type),
            checks |-> <<"side", "symbol", "order_type">>]
    ELSE IF validate_quantity(quantity).exc # "none"
      THEN [err |-> validate_quantity(quantity),
            checks |-> <<"side", "symbol", "order_type", "quantity">>]
    ELSE [err |-> validate_price(price, order_type),
          checks |-> <<"side", "symbol", "order_type", "quantity", "price">>]

\* validate_all: err is the error raised (NoError when none), checks the
\* sub-checks that were called, in call order.
validate_all(symbol, side, order_type, quantity, price) ==
    IF validate_symbol(symbol).exc # "none"
      THEN [err |-> validate_symbol(symbol), checks |-> <<"symbol">>]
    ELSE IF validate_side(side).exc # "none"
      THEN [err |-> validate_side(side), checks |-> <<"symbol", "side">>]
    ELSE IF validate_order_type(order_type).exc # "none"
      THEN [err |-> validate_order_type(order_type),
            checks |-> <<"symbol", "side", "order_type">>]
    ELSE IF validate_quantity(quantity).exc # "none"
      THEN [err |-> validate_quantity(quantity),
            checks |-> <<"symbol", "side", "order_type", "quantity">>]
    ELSE [err |-> validate_price(price, order_type),
          checks |-> <<"symbol", "side", "order_type", "quantity", "price">>]

(* -------------------------------------------------------------- transport *)

\* The attributes the exception classes of binance.exceptions define on their
\* instances (python-binance): only BinanceAPIException has status_code; the
\* BinanceOrderException family has code and message.
NativeAttrs(cls) ==
    CASE cls = "BinanceAPIException" ->
           {"code", "message", "status_code", "response", "request"}
      [] cls \in {"BinanceOrderException", "BinanceOrderUnknownSymbolException",
                  "BinanceOrderInactiveSymbolException"} -> {"code", "message"}
      [] cls = "BinanceRequestException" -> {"message"}
      [] OTHER -> {}

NativeClasses ==
    {"BinanceAPIException", "BinanceOrderException",
     "BinanceOrderUnknownSymbolException", "BinanceOrderInactiveSymbolException",
     "BinanceRequestException", "ConnectionError"}

Absent == "<absent>"

\* An exception instance of class cls: its attributes, and text = str(e)
NativeException(cls) ==
    [kind |-> "raise", cls |-> cls,
     status_code |-> IF "status_code" \in NativeAttrs(cls) THEN "400" ELSE Absent,
     message |-> IF "message" \in NativeAttrs(cls) THEN "rejected" ELSE Absent,
     text |-> "str:" \o cls,
     response |-> <<>>]

\* The transport returns the response dict
Returns(response) ==
    [kind |-> "return", cls |-> "", status_code |-> Absent, message |-> Absent,
     text |-> "", response |-> <<response>>]

Acks ==
    {[orderId |-> "1001", status |-> "NEW", executedQty |-> "0"],
     [orderId |-> "1002", status |-> "FILLED", executedQty |-> "1"]}

\* What one call of futures_create_order can do
CreateOrderBehaviours ==
    {Returns(a) : a \in Acks} \cup {NativeException(c) : c \in NativeClasses}

\* What one call of futures_get_order or futures_account can do
QueryBehaviours ==
    {Returns([orderId |-> "1001", status |-> "NEW", executedQty |-> "0"])}
        \cup {NativeException(c) : c \in {"BinanceAPIException", "ConnectionError"}}

\* dict.get(key)
DictGet(d, key) == IF key \in DOMAIN d THEN d[key] ELSE "None"

(* ---------------------------------------------------------------- gateway *)

NoMsg == [prefix |-> "", code |-> "", text |-> ""]
NoOutcome ==
    [kind |-> "none", exc |-> "", field |-> "", reason |-> "", msg |-> NoMsg,
     result |-> <<>>]
Raise(exc, field, reason, msg) ==
    [kind |-> "raise", exc |-> exc, field |-> field, reason |-> reason,
     msg |-> msg, result |-> <<>>]
Return(result) ==
    [kind |-> "return", exc |-> "", field |-> "", reason |-> "", msg |-> NoMsg,
     result |-> <<result>>]
APIError(prefix, code, text) ==
    Raise("APIError", "", "", [prefix |-> prefix, code |-> code, text |-> text])

\* The names bound at module level in api_client.py when a method body runs
ApiClientGlobals ==
    {"Dict", "Any", "Client", "BinanceAPIException", "BinanceOrderException",
     "BinanceOrderUnknownSymbolException", "BinanceOrderInactiveSymbolException",
     "BinanceRequestException", "API_KEY", "API_SECRET", "USE_TESTNET",
     "ENVIRONMENT", "get_logger", "logger", "APIError", "BinanceFuturesClient"}

GTC == <<"G","T","C">>
NoParams ==
    [keys |-> {}, symbol |-> PyNone, side |-> <<>>, type |-> <<>>,
     quantity |-> NoFloat, price |-> NoFloat, timeInForce |-> <<>>]

\* place_order adding price and timeInForce whenever a price was passed
BuildParamsPriceWhenGiven(symbol, side, order_type, quantity, price, time_in_force) ==
    IF price # NoFloat
      THEN [keys |-> {"symbol", "side", "type", "quantity", "price", "timeInForce"},
            symbol |-> symbol, side |-> Upper(side.v), type |-> Upper(order_type.v),
            quantity |-> quantity, price |-> price, timeInForce |-> time_in_force]
      ELSE [keys |-> {"symbol", "side", "type", "quantity"},
            symbol |-> symbol, side |-> Upper(side.v), type |-> Upper(order_type.v),
            quantity |-> quantity, price |-> NoFloat, timeInForce |-> <<>>]

\* place_order: the params dict handed to futures_create_order
BuildParams(symbol, side, order_type, quantity, price, time_in_force) ==
    IF Upper(order_type.v) = LIMIT
      THEN [keys |-> {"symbol", "side", "type", "quantity", "price", "timeInForce"},
            symbol |-> symbol, side |-> Upper(side.v), type |-> Upper(order_type.v),
            quantity |-> quantity, price |-> price, timeInForce |-> time_in_force]
      ELSE [keys |-> {"symbol", "side", "type", "quantity"},
            symbol |-> symbol, side |-> Upper(side.v), type |-> Upper(order_type.v),
            quantity |-> quantity, price |-> NoFloat, timeInForce |-> <<>>]

\* place_order: the except clauses, applied to what futures_create_order did
TranslateCreateOrder(did) ==
    IF did.kind = "return" THEN Return(did.response[1])
    ELSE IF did.cls \in {"BinanceAPIException", "BinanceOrderException",
                         "BinanceOrderUnknownSymbolException",
                         "BinanceOrderInactiveSymbolException"}
      THEN IF did.status_code = Absent
             THEN Raise("AttributeError", "", "status_code", NoMsg)
             ELSE APIError("Binance API Error", did.status_code, did.message)
    ELSE IF did.cls = "BinanceRequestException"
      THEN APIError("Binance Request Error", "", did.text)
    ELSE APIError("Unexpected error during order placement", "", did.text)

\* get_order / get_account_info: the debug log of the response formats it with
\* json.dumps inside the try block, then the response is returned
TranslateQuery(did, prefix) ==
    IF did.kind = "raise" THEN APIError(prefix, "", did.text)
    ELSE IF "json" \notin ApiClientGlobals
      THEN APIError(prefix, "", "name 'json' is not defined")
    ELSE Return(did.response[1])

(* ----------------------------------------------------------------- inputs *)

SeqsUpTo(chars, n) == UNION {[1..k -> chars] : k \in 0..n}

\* Symbol strings: a prefix of letters, digits and separators, then a suffix
PrefixChars == {"A", "a", "1", "_"}
Suffixes ==
    {USDT, <<"u","s","d","t">>, USDT \o <<"LF">>, USDT \o <<"SP">>,
     <<"U","S","D">>, <<>>}
SymbolInputs ==
    {Str(p \o x) : p \in SeqsUpTo(PrefixChars, MaxPrefix), x \in Suffixes}
        \cup {PyNone, PyInt(<<"0">>), PyInt(<<"7">>)}

\* Numeric strings: signed digit runs, and the other shapes float() knows or rejects
DigitChars == {"0", "5"}
SignedDigits ==
    {sg \o d : sg \in {<<>>, <<"-">>},
               d \in SeqsUpTo(DigitChars, MaxDigits) \ {<<>>}}
OtherNumStrings ==
    {<<>>, <<"n","a","n">>, <<"i","n","f">>, <<"-","i","n","f">>,
     <<"a","b","c">>, <<"5",".","5">>, <<"SP","5">>, <<"SP">>}
NumInputs == {Str(x) : x \in SignedDigits \cup OtherNumStrings} \cup {PyNone}

OrderTypeInputs ==
    {Str(MARKET), Str(<<"m","a","r","k","e","t">>), Str(LIMIT),
     Str(<<"l","i","m","i","t">>), Str(<<"S","T","O","P">>), Str(<<>>)}
SideInputs ==
    {Str(<<"B","U","Y">>), Str(<<"b","u","y">>), Str(<<"S","E","L","L">>),
     Str(<<"H","O","L","D">>), PyNone}
BTCUSDT == <<"B","T","C","U","S","D","T">>
ExecSymbolInputs ==
    {Str(BTCUSDT), Str(<<"b","t","c","u","s","d","t">>), Str(BTCUSDT \o <<"LF">>),
     Str(<<"X","Y","Z">>), Str(<<>>)}
TimeInForceInputs == {GTC, <<"I","O","C">>}
FloatInputs ==
    {Float("fin", FALSE, 5, 1), Float("fin", FALSE, 0, 1), NoFloat}

(* ----------------------------------------------------------------- config *)

TESTNET == <<"t","e","s","t","n","e","t">>
PRODUCTION == <<"p","r","o","d","u","c","t","i","o","n">>

\* os.getenv(key, default): the variable's value, the default when it is unset
Getenv(env, key, default) == IF env[key].t = "none" THEN default ELSE env[key].v

\* The config module before it has been imported
NoConfig ==
    [state |-> "unloaded", ENVIRONMENT |-> <<>>, USE_TESTNET |-> TRUE,
     API_KEY |-> <<>>, API_SECRET |-> <<>>, error |-> ""]

\* config.py without the check of the credentials
load_config_unchecked(env) ==
    LET E == LowerStr(Getenv(env, "ENVIRONMENT", TESTNET))
    IN  IF E \notin {TESTNET, PRODUCTION}
          THEN [NoConfig EXCEPT !.state = "failed", !.ENVIRONMENT = E,
                                !.error = "ValueError"]
          ELSE [state |-> "loaded", ENVIRONMENT |-> E,
                USE_TESTNET |-> (E # PRODUCTION),
                API_KEY |-> Getenv(env, "BINANCE_API_KEY", <<>>),
                API_SECRET |-> Getenv(env, "BINANCE_API_SECRET", <<>>),
                error |-> ""]

\* config.py, executed at its first import: ENVIRONMENT lower-cased and
\* checked, USE_TESTNET chosen, then the credentials read and checked; either
\* check raises ValueError
load_config(env) ==
    LET E == LowerStr(Getenv(env, "ENVIRONMENT", TESTNET))
        K == Getenv(env, "BINANCE_API_KEY", <<>>)
        S == Getenv(env, "BINANCE_API_SECRET", <<>>)
    IN  IF E \notin {TESTNET, PRODUCTION}
          THEN [NoConfig EXCEPT !.state = "failed", !.ENVIRONMENT = E,
                                !.error = "ValueError"]
        ELSE IF K = <<>> \/ S = <<>>
          THEN [state |-> "failed", ENVIRONMENT |-> E,
                USE_TESTNET |-> (E # PRODUCTION),
                API_KEY |-> K, API_SECRET |-> S, error |-> "ValueError"]
        ELSE [state |-> "loaded", ENVIRONMENT |-> E,
              USE_TESTNET |-> (E # PRODUCTION),
              API_KEY |-> K, API_SECRET |-> S, error |-> ""]

\* The process environment after load_dotenv()
Environ(e, k, s) == [ENVIRONMENT |-> e, BINANCE_API_KEY |-> k, BINANCE_API_SECRET |-> s]
EnvironmentInputs ==
    {PyNone, Str(TESTNET), Str(<<"P","r","o","d","u","c","t","i","o","n">>),
     Str(<<"p","r","o","d">>), Str(<<>>), Str(PRODUCTION \o <<"SP">>)}
CredentialInputs == {PyNone, Str(<<>>), Str(<<"k">>)}
DefaultEnviron == Environ(PyNone, Str(<<"k">>), Str(<<"k">>))

\* No BinanceFuturesClient constructed
NoClient ==
    [constructed |-> FALSE, testnet |-> TRUE, api_key |-> <<>>, api_secret |-> <<>>]

\* BinanceFuturesClient.__init__: Client(api_key, api_secret, testnet=USE_TESTNET)
NewClient(cfg) ==
    [constructed |-> TRUE, testnet |-> cfg.USE_TESTNET,
     api_key |-> cfg.API_KEY, api_secret |-> cfg.API_SECRET]

(* ---------------------------------------------------------------- logging *)

\* The names the modules pass to get_logger: their __name__
LoggerNames ==
    {"trading_bot.api_client", "trading_bot.cli", "trading_bot.orders",
     "trading_bot.validation"}

\* LoggerManager._logger is None, the logging module has no logger of ours
NoLogging ==
    [logger |-> "None", created |-> {}, handlers |-> [n \in LoggerNames |-> 0],
     setups |-> 0, requested |-> <<>>, returned |-> <<>>]

\* _setup_logger(name): logging.getLogger(name), and a console and a file
\* handler added unless the logger already has handlers
setup_logger(lg, name) ==
    [lg EXCEPT !.created = @ \cup {name},
               !.setups = @ + 1,
               !.handlers[name] = IF @ > 0 THEN @ ELSE 2]

\* get_logger setting a logger up whenever the name is not the cached one
get_logger_per_name(lg, name) ==
    LET lg1 == IF lg.logger # name
                 THEN [setup_logger(lg, name) EXCEPT !.logger = name]
                 ELSE lg
    IN  [lg1 EXCEPT !.requested = Append(@, name),
                    !.returned = Append(@, lg1.logger)]

\* get_logger(name): sets the logger up when _logger is None, returns _logger
get_logger(lg, name) ==
    LET lg1 == IF lg.logger = "None"
                 THEN [setup_logger(lg, name) EXCEPT !.logger = name]
                 ELSE lg
    IN  [lg1 EXCEPT !.requested = Append(@, name),
                    !.returned = Append(@, lg1.logger)]

(* ------------------------------------------------------------------ state *)

VARIABLES
    pc,        \* position: "idle", a step of execute_order, or "done"
    op,        \* the operation called
    args,      \* its raw arguments
    checks,    \* the sub-checks validate_all has called
    locals,    \* execute_order's qty_float and price_float
    gwargs,    \* the arguments of the place_order call
    calls,     \* the calls made to the transport, with what each did
    emitted,   \* what was printed: the order summary, the success summary
    outcome,   \* how the operation ended
    cli,       \* the place-order command: its mode, re-asked prompts, exit code
    environ,   \* the process environment
    config,    \* the config module's variables
    client,    \* the BinanceFuturesClient and the settings of its Client
    logging    \* LoggerManager._logger and the loggers set up

vars == <<pc, op, args, checks, locals, gwargs, calls, emitted, outcome, cli,
          environ, config, client, logging>>

NoArgs ==
    [symbol |-> PyNone, side |-> PyNone, order_type |-> PyNone,
     quantity |-> PyNone, price |-> PyNone]
NoLocals == [qty_float |-> NoFloat, price_float |-> NoFloat]
NoGwArgs ==
    [symbol |-> PyNone, side |-> PyNone, order_type |-> PyNone,
     quantity |-> NoFloat, price |-> NoFloat, time_in_force |-> <<>>]
NoCli == [mode |-> "none", reasks |-> 0, exit |-> "none",
                          confirmation |-> PyNone]
Call(endpoint, params, did) == [endpoint |-> endpoint, params |-> params, did |-> did]

Init ==
    /\ pc = "idle"
    /\ op = "none"
    /\ args = NoArgs
    /\ checks = <<>>
    /\ locals = NoLocals
    /\ gwargs = NoGwArgs
    /\ calls = <<>>
    /\ emitted = <<>>
    /\ outcome = NoOutcome
    /\ cli = NoCli
    /\ environ = DefaultEnviron
    /\ config = load_config(environ)
    /\ client = NewClient(config)
    /\ logging = get_logger(NoLogging, "trading_bot.api_client")

(* ---------------------------------------------------------- execute_order *)

\* A caller enters execute_order(symbol, side, order_type, quantity, price)
ExecuteOrder ==
    /\ pc = "idle"
    /\ \E sy \in ExecSymbolInputs, si \in SideInputs, ot \in OrderTypeInputs,
          q \in NumInputs, p \in NumInputs :
           args' = [symbol |-> sy, side |-> si, order_type |-> ot,
                    quantity |-> q, price |-> p]
    /\ op' = "execute_order"
    /\ pc' = "validate"
    /\ UNCHANGED <<cli, checks, locals, gwargs, calls, emitted, outcome>>
    /\ UNCHANGED <<environ, config, client, logging>>

\* Step 1 logging the ValidationError without re-raising it
ValidateSwallowsError ==
    /\ pc = "validate"
    /\ checks' = validate_all(args.symbol, args.side, args.order_type,
                              args.quantity, args.price).checks
    /\ pc' = "summary"
    /\ UNCHANGED <<cli, op, args, locals, gwargs, calls, emitted, outcome>>
    /\ UNCHANGED <<environ, config, client, logging>>

\* Step 1: validate_all; a ValidationError is logged and re-raised
Validate ==
    /\ pc = "validate"
    /\ LET r == validate_all(args.symbol, args.side, args.order_type,
                             args.quantity, args.price)
       IN  /\ checks' = r.checks
           /\ IF r.err.exc # "none"
                THEN /\ outcome' = Raise(r.err.exc, r.err.field, r.err.reason, NoMsg)
                     /\ pc' = "done"
                ELSE /\ outcome' = outcome
                     /\ pc' = "summary"
    /\ UNCHANGED <<cli, op, args, locals, gwargs, calls, emitted>>
    /\ UNCHANGED <<environ, config, client, logging>>

\* _generate_order_summary
OrderSummary(a) ==
    [what |-> "order_summary", symbol |-> a.symbol, side |-> Upper(a.side.v),
     type |-> Upper(a.order_type.v), quantity |-> a.quantity,
     price |-> IF Upper(a.order_type.v) = LIMIT THEN a.price
               ELSE Str(<<"Market Price">>)]

\* Step 2 without the print of the order summary
SummariseSilently ==
    /\ pc = "summary"
    /\ pc' = "convert"
    /\ UNCHANGED <<cli, op, args, checks, locals, gwargs, calls, emitted, outcome>>
    /\ UNCHANGED <<environ, config, client, logging>>

\* Step 2: build the order summary and print it
Summarise ==
    /\ pc = "summary"
    /\ emitted' = Append(emitted, OrderSummary(args))
    /\ pc' = "convert"
    /\ UNCHANGED <<cli, op, args, checks, locals, gwargs, calls, outcome>>
    /\ UNCHANGED <<environ, config, client, logging>>

\* Step 3: qty_float = float(quantity); price_float = float(price) if price else None
Convert ==
    /\ pc = "convert"
    /\ IF ~ParseFloat(args.quantity).ok
         \/ (Truthy(args.price) /\ ~ParseFloat(args.price).ok)
         THEN /\ outcome' = Raise("ValueError", "", "float", NoMsg)
              /\ pc' = "done"
              /\ locals' = locals
         ELSE /\ locals' = [qty_float |-> ParseFloat(args.quantity).val,
                            price_float |-> IF Truthy(args.price)
                                            THEN ParseFloat(args.price).val
                                            ELSE NoFloat]
              /\ outcome' = outcome
              /\ pc' = "place"
    /\ UNCHANGED <<cli, op, args, checks, gwargs, calls, emitted>>
    /\ UNCHANGED <<environ, config, client, logging>>

\* Step 4 calling place_order again when it raised
PlaceOrderRetries ==
    /\ pc = "place"
    /\ \E did \in CreateOrderBehaviours :
         LET g == [symbol |-> args.symbol, side |-> args.side,
                   order_type |-> args.order_type, quantity |-> locals.qty_float,
                   price |-> locals.price_float, time_in_force |-> GTC]
             params == BuildParams(g.symbol, g.side, g.order_type, g.quantity,
                                   g.price, g.time_in_force)
         IN  /\ gwargs' = g
             /\ calls' = Append(calls, Call("futures_create_order", params, did))
             /\ pc' = IF TranslateCreateOrder(did).kind = "return" THEN "parse"
                      ELSE "place"
    /\ UNCHANGED <<cli, op, args, checks, locals, emitted, outcome>>
    /\ UNCHANGED <<environ, config, client, logging>>

\* Step 4: api_client.place_order(...), time_in_force left at its default;
\* an APIError is logged and re-raised, any other exception passes through
PlaceOrder ==
    /\ pc = "place"
    /\ \E did \in CreateOrderBehaviours :
         LET g == [symbol |-> args.symbol, side |-> args.side,
                   order_type |-> args.order_type, quantity |-> locals.qty_float,
                   price |-> locals.price_float, time_in_force |-> GTC]
             params == BuildParams(g.symbol, g.side, g.order_type, g.quantity,
                                   g.price, g.time_in_force)
             r == TranslateCreateOrder(did)
         IN  /\ gwargs' = g
             /\ calls' = Append(calls, Call("futures_create_order", params, did))
             /\ IF r.kind = "return"
                  THEN /\ pc' = "parse"
                       /\ outcome' = outcome
                  ELSE /\ pc' = "done"
                       /\ outcome' = r
    /\ UNCHANGED <<cli, op, args, checks, locals, emitted>>
    /\ UNCHANGED <<environ, config, client, logging>>

\* _parse_order_response
\* _parse_order_response reporting failure and dropping the order id
ParseOrderResponseBlank(response) ==
    [success |-> FALSE, orderId |-> "None",
     status |-> DictGet(response, "status"),
     executedQuantity |-> DictGet(response, "executedQty")]

ParseOrderResponse(response) ==
    [success |-> TRUE, orderId |-> DictGet(response, "orderId"),
     status |-> DictGet(response, "status"),
     executedQuantity |-> DictGet(response, "executedQty")]

\* Step 5: parse the response, print the success message, return the result
ParseResponse ==
    /\ pc = "parse"
    /\ LET result == ParseOrderResponse(calls[Len(calls)].did.response[1])
       IN  /\ emitted' = Append(emitted, [what |-> "success_summary",
                                          orderId |-> result.orderId,
                                          status |-> result.status])
           /\ outcome' = Return(result)
    /\ pc' = "done"
    /\ UNCHANGED <<cli, op, args, checks, locals, gwargs, calls>>
    /\ UNCHANGED <<environ, config, client, logging>>

(* ------------------------------------------------- gateway, called directly *)

\* place_order(symbol, side, order_type, quantity, price, time_in_force)
PlaceOrderDirect ==
    /\ pc = "idle"
    /\ \E sy \in {Str(BTCUSDT)}, si \in {Str(<<"B","U","Y">>), Str(<<"s","e","l","l">>)},
          ot \in OrderTypeInputs \ {Str(<<>>)}, q \in {Float("fin", FALSE, 5, 1)},
          p \in FloatInputs, tif \in TimeInForceInputs, did \in CreateOrderBehaviours :
         LET params == BuildParams(sy, si, ot, q, p, tif)
         IN  /\ gwargs' = [symbol |-> sy, side |-> si, order_type |-> ot,
                           quantity |-> q, price |-> p, time_in_force |-> tif]
             /\ calls' = <<Call("futures_create_order", params, did)>>
             /\ outcome' = TranslateCreateOrder(did)
    /\ op' = "place_order"
    /\ pc' = "done"
    /\ UNCHANGED <<cli, args, checks, locals, emitted>>
    /\ UNCHANGED <<environ, config, client, logging>>

\* get_order(symbol, order_id)
GetOrder ==
    /\ pc = "idle"
    /\ \E did \in QueryBehaviours :
         /\ calls' = <<Call("futures_get_order", NoParams, did)>>
         /\ outcome' = TranslateQuery(did, "Error retrieving order")
    /\ op' = "get_order"
    /\ pc' = "done"
    /\ UNCHANGED <<cli, args, checks, locals, gwargs, emitted>>
    /\ UNCHANGED <<environ, config, client, logging>>

\* get_account_info()
GetAccountInfo ==
    /\ pc = "idle"
    /\ \E did \in QueryBehaviours :
         /\ calls' = <<Call("futures_account", NoParams, did)>>
         /\ outcome' = TranslateQuery(did, "Error retrieving account information")
    /\ op' = "get_account_info"
    /\ pc' = "done"
    /\ UNCHANGED <<cli, args, checks, locals, gwargs, emitted>>
    /\ UNCHANGED <<environ, config, client, logging>>

(* --------------------------------------------- validators, called directly *)

\* InputValidator.validate_symbol(symbol)
ValidateSymbol ==
    /\ pc = "idle"
    /\ \E sy \in SymbolInputs :
         /\ args' = [NoArgs EXCEPT !.symbol = sy]
         /\ outcome' = IF validate_symbol(sy).exc = "none" THEN Return(PyNone)
                       ELSE Raise("ValidationError", "symbol",
                                  validate_symbol(sy).reason, NoMsg)
    /\ op' = "validate_symbol"
    /\ pc' = "done"
    /\ UNCHANGED <<cli, checks, locals, gwargs, calls, emitted>>
    /\ UNCHANGED <<environ, config, client, logging>>

\* InputValidator.validate_quantity(quantity)
ValidateQuantity ==
    /\ pc = "idle"
    /\ \E q \in NumInputs :
         /\ args' = [NoArgs EXCEPT !.quantity = q]
         /\ outcome' = IF validate_quantity(q).exc = "none" THEN Return(PyNone)
                       ELSE Raise("ValidationError", "quantity",
                                  validate_quantity(q).reason, NoMsg)
    /\ op' = "validate_quantity"
    /\ pc' = "done"
    /\ UNCHANGED <<cli, checks, locals, gwargs, calls, emitted>>
    /\ UNCHANGED <<environ, config, client, logging>>

\* InputValidator.validate_price(price, order_type)
ValidatePrice ==
    /\ pc = "idle"
    /\ \E p \in NumInputs, ot \in OrderTypeInputs \cup {Str(<<"L","i","m","i","t">>)} :
         /\ args' = [NoArgs EXCEPT !.price = p, !.order_type = ot]
         /\ outcome' = IF validate_price(p, ot).exc = "none" THEN Return(PyNone)
                       ELSE Raise("ValidationError", "price",
                                  validate_price(p, ot).reason, NoMsg)
    /\ op' = "validate_price"
    /\ pc' = "done"
    /\ UNCHANGED <<cli, checks, locals, gwargs, calls, emitted>>
    /\ UNCHANGED <<environ, config, client, logging>>

(* ------------------------------------------------- the place-order command *)

EndsWith(s, suffix) ==
    Len(s) >= Len(suffix) /\ SubSeq(s, Len(s) - Len(suffix) + 1, Len(s)) = suffix
\* str.isalpha()
IsAlpha(s) == Len(s) > 0 /\ \A i \in 1..Len(s) : IsAlphaChar(s[i])

RECURSIVE NatToDigits(_)
NatToDigits(n) == IF n < 10 THEN <<Digits[n + 1]>>
                  ELSE NatToDigits(n \div 10) \o <<Digits[(n % 10) + 1]>>
RECURSIVE FracDigits(_, _)
\* the digits of n / den after the decimal point, without trailing zeros
FracDigits(n, den) == IF n = 0 \/ den = 1 THEN <<>>
                      ELSE <<Digits[((10 * n) \div den) + 1]>>
                               \o FracDigits((10 * n) % den, den)

\* str(f) of a float; the values met here are far from the magnitudes that
\* str() writes with an exponent
FloatToStr(f) ==
    CASE f.k = "nan" -> <<"n","a","n">>
      [] f.k = "inf" -> (IF f.neg THEN <<"-">> ELSE <<>>) \o <<"i","n","f">>
      [] f.k = "fin" ->
           (IF f.neg THEN <<"-">> ELSE <<>>)
               \o NatToDigits(f.num \div f.den) \o <<".">>
               \o (IF FracDigits(f.num % f.den, f.den) = <<>> THEN <<"0">>
                   ELSE FracDigits(f.num % f.den, f.den))

\* int(s): ok = FALSE stands for ValueError
ParseInt(s) ==
    LET t == Strip(s)
        body == IF Len(t) > 0 /\ t[1] \in {"-", "+"} THEN Tail(t) ELSE t
    IN  IF Len(body) > 0 /\ AllDigits(body)
          THEN [ok |-> TRUE,
                val |-> IF Len(t) > 0 /\ t[1] = "-" THEN 0 - DigitsValue(body)
                        ELSE DigitsValue(body)]
          ELSE [ok |-> FALSE, val |-> 0]

Rejected == [ok |-> FALSE, val |-> <<>>]
Accepted(val) == [ok |-> TRUE, val |-> val]

\* _validate_and_normalize_symbol: ok = FALSE stands for ValueError
validate_and_normalize_symbol(symbol) ==
    LET symbol_upper == Strip(Upper(symbol))
    IN  IF ~EndsWith(symbol_upper, USDT) THEN Rejected
        ELSE IF ~IsAlpha(SubSeq(symbol_upper, 1, Len(symbol_upper) - 4)) THEN Rejected
        ELSE Accepted(symbol_upper)

\* _validate_numeric_input: ok = FALSE stands for ValueError
validate_numeric_input(value) ==
    IF ~ParseFloat(Str(value)).ok THEN Rejected
    ELSE IF LeqZero(ParseFloat(Str(value)).val) THEN Rejected
    ELSE Accepted(FloatToStr(ParseFloat(Str(value)).val))

\* _prompt_for_input, one turn of its loop on one line read from the user
prompt_for_input(line, kind) ==
    LET user_input == Strip(line)
    IN  IF Len(user_input) = 0 THEN Rejected
        ELSE IF kind = "symbol" THEN validate_and_normalize_symbol(user_input)
        ELSE validate_numeric_input(user_input)

\* _prompt_for_choice, one turn of its loop on one line read from the user
prompt_for_choice(line, options) ==
    LET choice == Strip(line)
        choice_idx == ParseInt(choice).val - 1
    IN  IF ~ParseInt(choice).ok THEN Rejected
        ELSE IF 0 <= choice_idx /\ choice_idx < Len(options)
          THEN Accepted(options[choice_idx + 1])
        ELSE Rejected

\* Lines the user can type at the prompts
SymbolLines ==
    {<<"b","t","c","u","s","d","t">>, BTCUSDT \o <<"SP">>,
     <<"e_acute","u","s","d","t">>, <<"b","1","u","s","d","t">>,
     USDT, <<"x","y","z">>, <<>>}
ChoiceLines == {<<"1">>, <<"SP","2">>, <<"3">>, <<"0">>, <<"x">>, <<>>}
NumberLines == SignedDigits \cup OtherNumStrings
ConfirmLines ==
    {<<"y">>, <<"Y","E","S">>, <<"n">>, <<"N","o","SP">>, <<"o","k">>, <<>>}

\* place-order without --interactive: _execute_order_traditional_mode up to its
\* call of execute_order.  argparse passes --side and --type only as one of
\* its choices, and None for an option that was not given.
CliPlaceOrder ==
    /\ pc = "idle"
    /\ \E sy \in ExecSymbolInputs \cup {PyNone},
          si \in {Str(<<"B","U","Y">>), Str(<<"S","E","L","L">>), PyNone},
          ot \in {Str(MARKET), Str(LIMIT), PyNone},
          q \in NumInputs, p \in NumInputs :
         /\ args' = [symbol |-> sy, side |-> si, order_type |-> ot,
                     quantity |-> q, price |-> p]
         /\ IF ~Truthy(sy) \/ ~Truthy(si) \/ ~Truthy(ot) \/ ~Truthy(q)
              THEN /\ cli' = [mode |-> "traditional", reasks |-> 0, exit |-> "1",
                          confirmation |-> PyNone]
                   /\ pc' = "exited"
                   /\ op' = op
              ELSE /\ cli' = [mode |-> "traditional", reasks |-> 0, exit |-> "none",
                          confirmation |-> PyNone]
                   /\ pc' = "validate"
                   /\ op' = "execute_order"
    /\ UNCHANGED <<checks, locals, gwargs, calls, emitted, outcome>>
    /\ UNCHANGED <<environ, config, client, logging>>

\* place-order --interactive: _execute_order_interactive_mode starts prompting
CliInteractive ==
    /\ pc = "idle"
    /\ cli' = [mode |-> "interactive", reasks |-> 0, exit |-> "none",
                          confirmation |-> PyNone]
    /\ pc' = "prompt_symbol"
    /\ UNCHANGED <<op, args, checks, locals, gwargs, calls, emitted, outcome>>
    /\ UNCHANGED <<environ, config, client, logging>>

\* A prompt that rejected the line asks again
Reask ==
    /\ cli.reasks < MaxReasks
    /\ cli' = [cli EXCEPT !.reasks = @ + 1]
    /\ UNCHANGED <<pc, op, args, checks, locals, gwargs, calls, emitted, outcome>>
    /\ UNCHANGED <<environ, config, client, logging>>

PromptSymbol ==
    /\ pc = "prompt_symbol"
    /\ \E line \in SymbolLines :
         LET r == prompt_for_input(line, "symbol")
         IN  IF r.ok
               THEN /\ args' = [args EXCEPT !.symbol = Str(r.val)]
                    /\ pc' = "prompt_side"
                    /\ UNCHANGED <<op, checks, locals, gwargs, calls, emitted,
                                   outcome, cli>>
               ELSE Reask
    /\ UNCHANGED <<environ, config, client, logging>>

PromptSide ==
    /\ pc = "prompt_side"
    /\ \E line \in ChoiceLines :
         LET r == prompt_for_choice(line, <<<<"B","U","Y">>, <<"S","E","L","L">>>>)
         IN  IF r.ok
               THEN /\ args' = [args EXCEPT !.side = Str(r.val)]
                    /\ pc' = "prompt_type"
                    /\ UNCHANGED <<op, checks, locals, gwargs, calls, emitted,
                                   outcome, cli>>
               ELSE Reask
    /\ UNCHANGED <<environ, config, client, logging>>

PromptType ==
    /\ pc = "prompt_type"
    /\ \E line \in ChoiceLines :
         LET r == prompt_for_choice(line, <<MARKET, LIMIT>>)
         IN  IF r.ok
               THEN /\ args' = [args EXCEPT !.order_type = Str(r.val)]
                    /\ pc' = "prompt_quantity"
                    /\ UNCHANGED <<op, checks, locals, gwargs, calls, emitted,
                                   outcome, cli>>
               ELSE Reask
    /\ UNCHANGED <<environ, config, client, logging>>

\* the price is asked for only when the order type is LIMIT, and is None otherwise
PromptQuantity ==
    /\ pc = "prompt_quantity"
    /\ \E line \in NumberLines :
         LET r == prompt_for_input(line, "number")
         IN  IF r.ok
               THEN /\ args' = [args EXCEPT !.quantity = Str(r.val)]
                    /\ pc' = IF Upper(args.order_type.v) = LIMIT
                             THEN "prompt_price" ELSE "cli_validate"
                    /\ UNCHANGED <<op, checks, locals, gwargs, calls, emitted,
                                   outcome, cli>>
               ELSE Reask
    /\ UNCHANGED <<environ, config, client, logging>>

PromptPrice ==
    /\ pc = "prompt_price"
    /\ \E line \in NumberLines :
         LET r == prompt_for_input(line, "number")
         IN  IF r.ok
               THEN /\ args' = [args EXCEPT !.price = Str(r.val)]
                    /\ pc' = "cli_validate"
                    /\ UNCHANGED <<op, checks, locals, gwargs, calls, emitted,
                                   outcome, cli>>
               ELSE Reask
    /\ UNCHANGED <<environ, config, client, logging>>

\* InputValidator.validate_all on the prompted details, then _display_order_summary
CliValidate ==
    /\ pc = "cli_validate"
    /\ LET r == validate_all(args.symbol, args.side, args.order_type,
                             args.quantity, args.price)
       IN  /\ checks' = r.checks
           /\ IF r.err.exc # "none"
                THEN /\ outcome' = Raise(r.err.exc, r.err.field, r.err.reason, NoMsg)
                     /\ pc' = "done"
                     /\ emitted' = emitted
                ELSE /\ outcome' = outcome
                     /\ pc' = "confirm"
                     /\ emitted' = Append(emitted, [what |-> "cli_order_summary"])
    /\ UNCHANGED <<op, args, locals, gwargs, calls, cli>>
    /\ UNCHANGED <<environ, config, client, logging>>

\* _confirm_order_execution going on unless the answer is n or no
ConfirmUnlessNo ==
    /\ pc = "confirm"
    /\ \E line \in ConfirmLines :
         LET confirmation == LowerStr(Strip(line))
         IN  IF confirmation \notin {<<"n">>, <<"n","o">>}
               THEN /\ cli' = [cli EXCEPT !.confirmation = Str(confirmation)]
                    /\ pc' = "validate"
                    /\ op' = "execute_order"
                    /\ UNCHANGED <<args, checks, locals, gwargs, calls, emitted,
                                   outcome>>
               ELSE /\ cli' = [cli EXCEPT !.exit = "0",
                                          !.confirmation = Str(confirmation)]
                    /\ pc' = "exited"
                    /\ UNCHANGED <<op, args, checks, locals, gwargs, calls, emitted,
                                   outcome>>
    /\ UNCHANGED <<environ, config, client, logging>>

\* _confirm_order_execution: the answer is stripped and lower-cased; y or yes
\* goes on to execute_order, n or no cancels with exit code 0, anything else
\* asks again
Confirm ==
    /\ pc = "confirm"
    /\ \E line \in ConfirmLines :
         LET confirmation == LowerStr(Strip(line))
         IN  IF confirmation \in {<<"y">>, <<"y","e","s">>}
               THEN /\ cli' = [cli EXCEPT !.confirmation = Str(confirmation)]
                    /\ pc' = "validate"
                    /\ op' = "execute_order"
                    /\ UNCHANGED <<args, checks, locals, gwargs, calls, emitted,
                                   outcome>>
             ELSE IF confirmation \in {<<"n">>, <<"n","o">>}
               THEN /\ cli' = [cli EXCEPT !.exit = "0",
                                          !.confirmation = Str(confirmation)]
                    /\ pc' = "exited"
                    /\ UNCHANGED <<op, args, checks, locals, gwargs, calls, emitted,
                                   outcome>>
             ELSE /\ cli.reasks < MaxReasks
                  /\ cli' = [cli EXCEPT !.reasks = @ + 1,
                                        !.confirmation = Str(confirmation)]
                  /\ UNCHANGED <<pc, op, args, checks, locals, gwargs, calls,
                                 emitted, outcome>>
    /\ UNCHANGED <<environ, config, client, logging>>

\* input() raises EOFError when the input stream has ended
PromptEOF ==
    /\ pc \in {"prompt_symbol", "prompt_side", "prompt_type", "prompt_quantity",
               "prompt_price", "confirm"}
    /\ outcome' = Raise("EOFError", "", "", NoMsg)
    /\ pc' = "done"
    /\ UNCHANGED <<op, args, checks, locals, gwargs, calls, emitted, cli>>
    /\ UNCHANGED <<environ, config, client, logging>>

\* The command reporting success whatever execute_order did
CliExitAlwaysZero ==
    /\ pc = "done"
    /\ cli.mode # "none"
    /\ cli' = [cli EXCEPT !.exit = "0"]
    /\ pc' = "exited"
    /\ UNCHANGED <<op, args, checks, locals, gwargs, calls, emitted, outcome>>
    /\ UNCHANGED <<environ, config, client, logging>>

\* _execute_order: sys.exit(0) after execute_order returned; ValidationError,
\* APIError and every other Exception print a message and sys.exit(1)
CliExit ==
    /\ pc = "done"
    /\ cli.mode # "none"
    /\ cli' = [cli EXCEPT !.exit = IF outcome.kind = "return" THEN "0" ELSE "1"]
    /\ pc' = "exited"
    /\ UNCHANGED <<op, args, checks, locals, gwargs, calls, emitted, outcome>>
    /\ UNCHANGED <<environ, config, client, logging>>

\* The operation has ended; the next call starts afresh
Finish ==
    /\ \/ pc = "done" /\ cli.mode = "none"
       \/ pc = "exited"
    /\ cli' = NoCli
    /\ pc' = "idle"
    /\ op' = "none"
    /\ args' = NoArgs
    /\ checks' = <<>>
    /\ locals' = NoLocals
    /\ gwargs' = NoGwArgs
    /\ calls' = <<>>
    /\ emitted' = <<>>
    /\ outcome' = NoOutcome
    /\ UNCHANGED <<environ, config, client, logging>>

Next ==
    \/ ExecuteOrder
    \/ Validate
    \/ Summarise
    \/ Convert
    \/ PlaceOrder
    \/ ParseResponse
    \/ PlaceOrderDirect
    \/ GetOrder
    \/ GetAccountInfo
    \/ ValidateSymbol
    \/ ValidateQuantity
    \/ ValidatePrice
    \/ CliPlaceOrder
    \/ CliInteractive
    \/ PromptSymbol
    \/ PromptSide
    \/ PromptType
    \/ PromptQuantity
    \/ PromptPrice
    \/ CliValidate
    \/ Confirm
    \/ PromptEOF
    \/ CliExit
    \/ Finish

Spec == Init /\ [][Next]_vars

(* ---------------------------------------------------------------- start-up *)

\* A process that has not imported trading_bot yet, in any environment
BootInit ==
    /\ pc = "boot"
    /\ op = "none"
    /\ args = NoArgs
    /\ checks = <<>>
    /\ locals = NoLocals
    /\ gwargs = NoGwArgs
    /\ calls = <<>>
    /\ emitted = <<>>
    /\ outcome = NoOutcome
    /\ cli = NoCli
    /\ environ \in {Environ(e, k, s) : e \in EnvironmentInputs,
                                       k \in CredentialInputs,
                                       s \in CredentialInputs}
    /\ config = NoConfig
    /\ client = NoClient
    /\ logging = NoLogging

\* import trading_bot.api_client: config.py runs first and may raise
\* ValueError, which ends the process; then logging_config, then the module's
\* logger = get_logger(__name__)
ImportModules ==
    /\ pc = "boot"
    /\ config' = load_config(environ)
    /\ IF config'.state = "failed"
         THEN pc' = "crashed" /\ logging' = logging
         ELSE pc' = "configured" /\ logging' = get_logger(logging, "trading_bot.api_client")
    /\ UNCHANGED <<op, args, checks, locals, gwargs, calls, emitted, outcome, cli,
                   environ, client>>

\* BinanceFuturesClient() with the library's default endpoint
ConstructClientDefaultEndpoint ==
    /\ pc = "configured"
    /\ client' = [NewClient(config) EXCEPT !.testnet = FALSE]
    /\ pc' = "idle"
    /\ UNCHANGED <<op, args, checks, locals, gwargs, calls, emitted, outcome, cli,
                   environ, config, logging>>

\* OrderExecutor() / BinanceFuturesClient(): the Client is built from the
\* config module's API_KEY, API_SECRET and USE_TESTNET
ConstructClient ==
    /\ pc = "configured"
    /\ client' = NewClient(config)
    /\ pc' = "idle"
    /\ UNCHANGED <<op, args, checks, locals, gwargs, calls, emitted, outcome, cli,
                   environ, config, logging>>

BootNext ==
    \/ ImportModules
    \/ ConstructClient
    \/ Next

BootSpec == BootInit /\ [][BootNext]_vars

(* ------------------------------------------------------------- get_logger *)

MaxCalls == 4

\* A process in which nothing has called get_logger yet
LoggerInit ==
    /\ pc = "logging"
    /\ op = "none"
    /\ args = NoArgs
    /\ checks = <<>>
    /\ locals = NoLocals
    /\ gwargs = NoGwArgs
    /\ calls = <<>>
    /\ emitted = <<>>
    /\ outcome = NoOutcome
    /\ cli = NoCli
    /\ environ = DefaultEnviron
    /\ config = load_config(environ)
    /\ client = NoClient
    /\ logging = NoLogging

\* get_logger(name), called by any module with any name
GetLogger ==
    /\ pc = "logging"
    /\ Len(logging.requested) < MaxCalls
    /\ \E name \in LoggerNames : logging' = get_logger(logging, name)
    /\ UNCHANGED <<pc, op, args, checks, locals, gwargs, calls, emitted, outcome,
                   cli, environ, config, client>>

LoggerNext == GetLogger

LoggerSpec == LoggerInit /\ [][LoggerNext]_vars

(* ----------------------------------------------------------------- claims *)

CreateOrderCalls == {i \in 1..Len(calls) : calls[i].endpoint = "futures_create_order"}
InExecuteOrder == op = "execute_order" /\ pc # "idle"
ExecuteOrderEnded == op = "execute_order" /\ pc = "done"

\* C1: in one execution of execute_order, and of the traditional and
\* interactive place-order flows that drive it, failed validation of the raw
\* inputs and a call of the transport's create-order are mutually exclusive:
\* when the inputs do not validate, or the call ends in ValidationError,
\* create-order has not been called.
C1_NoCreateOrderWhenValidationFails ==
    LET failed == validate_all(args.symbol, args.side, args.order_type,
                               args.quantity, args.price).err.exc # "none"
    IN  ( \/ outcome.exc = "ValidationError"
          \/ (op = "execute_order" \/ cli.mode # "none") /\ failed )
            => CreateOrderCalls = {}

\* C1 witness: a LIMIT order with an empty price ended in ValidationError
\* after all five checks, and the transport was never called.
C1_Witness ==
    /\ ExecuteOrderEnded
    /\ outcome.exc = "ValidationError"
    /\ outcome.field = "price"
    /\ Upper(args.order_type.v) = LIMIT
    /\ args.price = Str(<<>>)
    /\ calls = <<>>

\* C2: execute_order ends in exactly one of: a returned result, a raised
\* ValidationError, a raised APIError; no other exception type escapes.
C2_OnlyThreeOutcomes ==
    ExecuteOrderEnded =>
        \/ outcome.kind = "return"
        \/ outcome.kind = "raise" /\ outcome.exc \in {"ValidationError", "APIError"}

\* C3: whenever the transport's create-order call raised, place_order raises
\* APIError and nothing else, and the APIError message carries the native
\* exception's status code and message when the exception has them.
C3_NativeErrorsBecomeAPIError ==
    \A i \in CreateOrderCalls :
        (i = Len(calls) /\ pc = "done" /\ calls[i].did.kind = "raise") =>
            /\ outcome.kind = "raise"
            /\ outcome.exc = "APIError"
            /\ calls[i].did.status_code # Absent =>
                   /\ outcome.msg.code = calls[i].did.status_code
                   /\ outcome.msg.text = calls[i].did.message

\* C4: get_order and get_account_info return the transport's response when
\* the transport call returns, and raise APIError exactly when it raises.
C4_QueryReturnsResponse ==
    (op \in {"get_order", "get_account_info"} /\ pc = "done") =>
        LET did == calls[1].did
        IN  /\ did.kind = "return" => outcome = Return(did.response[1])
            /\ (outcome.kind = "raise" /\ outcome.exc = "APIError") <=> did.kind = "raise"

\* C5: in every request handed to create-order, price and timeInForce are
\* present exactly when the order type is LIMIT in any letter case; when
\* present, timeInForce is what the caller of place_order passed, and GTC for
\* every order submitted through execute_order.
C5_PriceAndTimeInForceOnlyForLimit ==
    \A i \in CreateOrderCalls :
        LET params == calls[i].params
            isLimit == LowerStr(gwargs.order_type.v) = <<"l","i","m","i","t">>
        IN  /\ "price" \in params.keys <=> isLimit
            /\ "timeInForce" \in params.keys <=> isLimit
            /\ isLimit => /\ params.timeInForce = gwargs.time_in_force
                          /\ params.price = gwargs.price
            /\ (isLimit /\ op = "execute_order") => params.timeInForce = GTC

\* C5 witness: a MARKET order placed with a price supplied by the caller
\* reached the transport without price and timeInForce.
C5_Witness ==
    /\ CreateOrderCalls # {}
    /\ op = "execute_order"
    /\ Upper(gwargs.order_type.v) = MARKET
    /\ IsFinitePositive(gwargs.price)
    /\ calls[1].params.keys = {"symbol", "side", "type", "quantity"}

\* The ValidatedOrder shape of a symbol: one or more A-Z, then USDT, nothing else
StrictSymbol(x) ==
    /\ x.t = "str"
    /\ Len(x.v) >= 5
    /\ SubSeq(x.v, Len(x.v) - 3, Len(x.v)) = USDT
    /\ \A i \in 1..(Len(x.v) - 4) : IsUpperAZ(x.v[i])

\* C6: every request that reaches create-order through execute_order is a
\* ValidatedOrder: symbol of A-Z letters followed by USDT, side BUY or SELL,
\* type MARKET or LIMIT, quantity finite and > 0, and for LIMIT a price
\* finite and > 0.
C6_RequestsAreValidatedOrders ==
    op = "execute_order" =>
        \A i \in CreateOrderCalls :
            LET params == calls[i].params
            IN  /\ StrictSymbol(params.symbol)
                /\ params.side \in {<<"B","U","Y">>, <<"S","E","L","L">>}
                /\ params.type \in {MARKET, LIMIT}
                /\ IsFinitePositive(params.quantity)
                /\ params.type = LIMIT => IsFinitePositive(params.price)

FieldOrder == <<"symbol", "side", "order_type", "quantity", "price">>
FieldError(i) ==
    CASE i = 1 -> validate_symbol(args.symbol)
      [] i = 2 -> validate_side(args.side)
      [] i = 3 -> validate_order_type(args.order_type)
      [] i = 4 -> validate_quantity(args.quantity)
      [] i = 5 -> validate_price(args.price, args.order_type)
InvalidFields == {i \in 1..5 : FieldError(i).exc # "none"}
FirstInvalid == CHOOSE i \in InvalidFields : \A j \in InvalidFields : i <= j

\* C7: validate_all runs its checks in the order symbol, side, order type,
\* quantity, price and stops at the first failure: the error raised is that
\* of the earliest invalid field, and no later check has run.
C7_FirstInvalidFieldDecides ==
    (op = "execute_order" /\ pc \notin {"idle", "validate"}) =>
        IF InvalidFields = {}
          THEN checks = FieldOrder /\ outcome.exc # "ValidationError"
          ELSE /\ checks = SubSeq(FieldOrder, 1, FirstInvalid)
               /\ outcome.exc = "ValidationError"
               /\ outcome.field = FieldOrder[FirstInvalid]
               /\ outcome.reason = FieldError(FirstInvalid).reason

\* C7 witness: symbol, side and quantity were all invalid, the symbol's
\* error was raised and only the symbol check had run.
C7_Witness ==
    /\ ExecuteOrderEnded
    /\ {1, 2, 4} \subseteq InvalidFields
    /\ checks = <<"symbol">>
    /\ outcome.field = "symbol"

\* C8: for a MARKET order with valid symbol, side and quantity, any supplied
\* price is ignored: the call sends the request, and ends as, the same call
\* made without a price.
C8_MarketPriceIgnored ==
    ( /\ ExecuteOrderEnded
      /\ FieldError(1).exc = "none" /\ FieldError(2).exc = "none"
      /\ FieldError(3).exc = "none" /\ FieldError(4).exc = "none"
      /\ Upper(args.order_type.v) = MARKET ) =>
        /\ outcome.exc \notin {"ValidationError", "ValueError"}
        /\ Len(calls) = 1
        /\ calls[1].params.keys = {"symbol", "side", "type", "quantity"}
        /\ calls[1].params.quantity = ParseFloat(args.quantity).val
        /\ calls[1].params.price = NoFloat

\* C9: for order type LIMIT in any letter case, validate_price succeeds
\* exactly for the prices that are positive finite numbers, and raises
\* ValidationError for every other price.
C9_LimitPricePositiveFinite ==
    ( /\ op = "validate_price" /\ pc = "done"
      /\ LowerStr(args.order_type.v) = <<"l","i","m","i","t">> ) =>
        LET good == /\ args.price.t = "str"
                    /\ ParseFloat(args.price).ok
                    /\ IsFinitePositive(ParseFloat(args.price).val)
        IN  /\ good <=> outcome.kind = "return"
            /\ ~good <=> (outcome.kind = "raise" /\ outcome.exc = "ValidationError")

\* C10: validate_symbol succeeds exactly for strings of one or more A-Z
\* letters followed by USDT and nothing else, and raises ValidationError for
\* every other input; it does not upper-case its input.
C10_SymbolPatternExact ==
    (op = "validate_symbol" /\ pc = "done") =>
        /\ StrictSymbol(args.symbol) <=> outcome.kind = "return"
        /\ ~StrictSymbol(args.symbol) <=>
               (outcome.kind = "raise" /\ outcome.exc = "ValidationError")

\* C11: validate_quantity succeeds only for inputs that are non-empty, parse
\* as a finite number and are strictly positive; every other input (empty,
\* non-numeric, zero, negative, infinite, not-a-number) raises
\* ValidationError, and nothing but ValidationError is ever raised.
C11_QuantityPositiveFinite ==
    (op = "validate_quantity" /\ pc = "done") =>
        LET good == /\ Truthy(args.quantity)
                    /\ ParseFloat(args.quantity).ok
                    /\ IsFinitePositive(ParseFloat(args.quantity).val)
        IN  /\ outcome.kind = "return" => good
            /\ ~good => (outcome.kind = "raise" /\ outcome.exc = "ValidationError")
            /\ outcome.kind = "raise" => outcome.exc = "ValidationError"

\* C12: within one call of execute_order the transport's create-order is
\* called at most once; when it raised, the call has ended with an error and
\* nothing more is done, and a call that ended with an error stays ended.
C12_CreateOrderAtMostOnce ==
    op = "execute_order" =>
        /\ Cardinality(CreateOrderCalls) <= 1
        /\ outcome.kind = "raise" => pc \in {"done", "exited"}
        /\ \A i \in CreateOrderCalls :
               calls[i].did.kind = "raise" =>
                   /\ pc \in {"done", "exited"}
                   /\ outcome.kind = "raise"
                   /\ i = Len(calls)

\* C12 witness: create-order raised, was called once, and the call has ended
\* with the error.
C12_Witness ==
    /\ ExecuteOrderEnded
    /\ Len(calls) = 1
    /\ calls[1].did.kind = "raise"
    /\ outcome.exc = "APIError"

\* C13: execute_order returns a result exactly when the inputs validated and
\* the transport's create-order returned an acknowledgment; a returned result
\* has success = true and the acknowledgment's orderId and status; when the
\* call raised, no result of any kind is produced.
C13_ResultIffValidatedAndAcknowledged ==
    ExecuteOrderEnded =>
        LET validated == validate_all(args.symbol, args.side, args.order_type,
                                      args.quantity, args.price).err.exc = "none"
            acked == {i \in CreateOrderCalls : calls[i].did.kind = "return"}
        IN  /\ outcome.kind = "return" <=> (validated /\ acked # {})
            /\ outcome.kind = "return" =>
                   /\ Len(outcome.result) = 1
                   /\ outcome.result[1].success = TRUE
                   /\ \A i \in acked :
                          /\ outcome.result[1].orderId = calls[i].did.response[1].orderId
                          /\ outcome.result[1].status = calls[i].did.response[1].status
            /\ outcome.kind # "return" =>
                   /\ outcome.kind = "raise"
                   /\ outcome.result = <<>>

\* C13 witness: validated inputs, create-order acknowledged order 1002 as
\* FILLED, and execute_order returned the result echoing it.
C13_Witness ==
    /\ ExecuteOrderEnded
    /\ outcome.kind = "return"
    /\ Len(calls) = 1
    /\ calls[1].did.response[1].orderId = "1002"
    /\ outcome.result[1].orderId = "1002"
    /\ outcome.result[1].status = "FILLED"

\* C14: the traditional place-order command ends with an exit code whatever
\* execute_order did: once execute_order has ended the command's next step is
\* the exit, the code is 0 exactly when execute_order returned a result, and
\* it is 1 when execute_order raised ValidationError or APIError.
C14_TraditionalExitCodes ==
    [][ /\ (cli.mode = "traditional" /\ pc = "done") => pc' = "exited"
        /\ (cli'.mode = "traditional" /\ pc' = "exited" /\ pc # "exited") =>
               /\ cli'.exit \in {"0", "1"}
               /\ cli'.exit = "0" <=> outcome'.kind = "return"
               /\ outcome'.exc \in {"ValidationError", "APIError"} =>
                      cli'.exit = "1" ]_vars

\* C14 witness: the traditional command exited with 1 after create-order was
\* called and execute_order raised APIError.
C14_Witness ==
    /\ cli.mode = "traditional"
    /\ pc = "exited"
    /\ cli.exit = "1"
    /\ outcome.exc = "APIError"
    /\ CreateOrderCalls # {}

\* C15: the credentials are checked once, when the process starts and before
\* any operation: with the API key or the API secret unset or empty, start-up
\* ends in ValueError, no client is ever constructed, no transport call is
\* ever made and no operation ends in ValidationError or APIError; every
\* operation runs in a process whose configuration loaded, and every client
\* holds a non-empty key and secret.
C15_MissingCredentialsFatalAtStartup ==
    LET missing == \/ ~Truthy(environ.BINANCE_API_KEY)
                   \/ ~Truthy(environ.BINANCE_API_SECRET)
    IN  /\ missing =>
               /\ pc \in {"boot", "crashed"}
               /\ ~client.constructed
               /\ calls = <<>>
               /\ outcome = NoOutcome
               /\ op = "none"
        /\ (missing /\ pc = "crashed") => config.error = "ValueError"
        /\ pc \notin {"boot", "crashed"} => config.state = "loaded"
        /\ (op # "none" \/ cli.mode # "none" \/ calls # <<>>) => client.constructed
        /\ client.constructed => (client.api_key # <<>> /\ client.api_secret # <<>>)

\* C15 witness: a valid ENVIRONMENT and an API key but no API secret: start-up
\* has failed with ValueError and no client exists.
C15_Witness ==
    /\ pc = "crashed"
    /\ environ.ENVIRONMENT = Str(TESTNET)
    /\ environ.BINANCE_API_KEY = Str(<<"k">>)
    /\ environ.BINANCE_API_SECRET = PyNone
    /\ config.error = "ValueError"
    /\ ~client.constructed

\* ENVIRONMENT is set and equals the word, letter case ignored
EnvironmentIs(word) ==
    /\ environ.ENVIRONMENT.t = "str"
    /\ Len(environ.ENVIRONMENT.v) = Len(word)
    /\ \A i \in 1..Len(word) : UpperChar(environ.ENVIRONMENT.v[i]) = UpperChar(word[i])

\* C16: a constructed client uses the production endpoint exactly when
\* ENVIRONMENT, letter case ignored, is "production"; with ENVIRONMENT unset or
\* "testnet" the process starts and its client uses the testnet endpoint; with
\* any other value start-up fails, no client is constructed and no transport
\* call is made.
C16_ProductionOnlyWhenSelected ==
    LET unset == environ.ENVIRONMENT.t = "none"
        production == EnvironmentIs(PRODUCTION)
        testnet == EnvironmentIs(TESTNET)
        credentials == /\ Truthy(environ.BINANCE_API_KEY)
                       /\ Truthy(environ.BINANCE_API_SECRET)
    IN  /\ client.constructed => (~client.testnet <=> production)
        /\ (unset \/ testnet) =>
               /\ client.constructed => client.testnet
               /\ (credentials /\ pc # "boot") => config.state = "loaded"
               /\ (credentials /\ pc \notin {"boot", "configured"}) => client.constructed
        /\ (~unset /\ ~testnet /\ ~production) =>
               /\ pc \in {"boot", "crashed"}
               /\ pc = "crashed" => config.error = "ValueError"
               /\ ~client.constructed
               /\ calls = <<>>
        /\ (calls # <<>> /\ ~client.testnet) => production

\* C16 witness: ENVIRONMENT is "Production", and create-order has been called
\* through a client on the production endpoint.
C16_Witness ==
    /\ environ.ENVIRONMENT = Str(<<"P","r","o","d","u","c","t","i","o","n">>)
    /\ client.constructed
    /\ ~client.testnet
    /\ CreateOrderCalls # {}

\* What execute_order has printed
HasOrderSummary == \E i \in 1..Len(emitted) : emitted[i].what = "order_summary"
HasSuccessSummary == \E i \in 1..Len(emitted) : emitted[i].what = "success_summary"

\* C17: in execute_order the steps come in the order validate, order summary,
\* create-order, success summary: the order summary is printed only after all
\* five checks passed and before any create-order call, create-order is called
\* only after the order summary, the success summary is printed only after
\* create-order returned, and once the call has raised nothing more is
\* printed or sent.
C17_StepsInOrder ==
    [][ op' = "execute_order" =>
          /\ (HasOrderSummary' /\ ~HasOrderSummary) =>
                 /\ validate_all(args.symbol, args.side, args.order_type,
                                 args.quantity, args.price).err.exc = "none"
                 /\ Len(checks) = 5
                 /\ CreateOrderCalls' = {}
                 /\ ~HasSuccessSummary'
          /\ CreateOrderCalls' # CreateOrderCalls =>
                 /\ HasOrderSummary
                 /\ ~HasSuccessSummary'
                 /\ outcome.kind = "none"
          /\ (HasSuccessSummary' /\ ~HasSuccessSummary) =>
                 /\ HasOrderSummary
                 /\ CreateOrderCalls # {}
                 /\ calls[Len(calls)].did.kind = "return"
                 /\ calls' = calls
          /\ (op = "execute_order" /\ outcome.kind = "raise") =>
                 (calls' = calls /\ emitted' = emitted) ]_vars

\* C17 witness: execute_order, called directly, has printed the order summary
\* and then the success summary around one create-order call.
C17_Witness ==
    /\ ExecuteOrderEnded
    /\ cli.mode = "none"
    /\ Len(emitted) = 2
    /\ emitted[1].what = "order_summary"
    /\ emitted[2].what = "success_summary"
    /\ Len(calls) = 1
    /\ calls[1].endpoint = "futures_create_order"

YesAnswers == {Str(<<"y">>), Str(<<"y","e","s">>)}
NoAnswers == {Str(<<"n">>), Str(<<"n","o">>)}

\* C19: in the interactive flow create-order is called only after the user
\* answered y or yes; after n or no the process has exited with code 0 and
\* create-order was never called; after any other answer the confirmation is
\* asked again (or the input ended) and create-order has not been called.
C19_CreateOrderOnlyAfterConfirmation ==
    [][ cli'.mode = "interactive" =>
          /\ CreateOrderCalls' # {} => cli'.confirmation \in YesAnswers
          /\ CreateOrderCalls' # CreateOrderCalls => cli.confirmation \in YesAnswers
          /\ op' = "execute_order" => cli'.confirmation \in YesAnswers
          /\ cli'.confirmation \in NoAnswers =>
                 /\ pc' = "exited"
                 /\ cli'.exit = "0"
                 /\ calls' = <<>>
          /\ cli'.confirmation \notin (YesAnswers \cup NoAnswers \cup {PyNone}) =>
                 /\ calls' = <<>>
                 /\ op' = "none"
                 /\ pc' \in {"confirm", "done", "exited"}
                 /\ pc' # "confirm" => outcome'.exc = "EOFError" ]_vars

\* C19 witness: a prompt asked again, the answer to the confirmation was yes,
\* and create-order has been called.
C19_Witness ==
    /\ cli.mode = "interactive"
    /\ cli.reasks = 1
    /\ cli.confirmation = Str(<<"y","e","s">>)
    /\ CreateOrderCalls # {}

\* C20: in the interactive flow every set of values the prompts accepted is
\* accepted by validate_all, so once the prompts are done the flow never ends
\* in ValidationError.
C20_PromptsRefineValidator ==
    cli.mode = "interactive" =>
        /\ pc = "cli_validate" =>
               validate_all(args.symbol, args.side, args.order_type,
                            args.quantity, args.price).err.exc = "none"
        /\ outcome.exc # "ValidationError"

====
